---- MODULE Spec2Model ----
(***************************************************************************)
(* Alert detection and lifecycle engine of the WiFi analytics backend:     *)
(* backend/alerts.py (AlertSystem) and backend/routes/alerts.py            *)
(* (acknowledge_alert).                                                    *)
(*                                                                         *)
(* Alert objects are shared by reference between active_alerts and         *)
(* alert_history (one Python object is put in both containers).  The model *)
(* keeps the objects in alert_history and lets active_alerts map an        *)
(* alert id to the position of its object in alert_history, so a write     *)
(* through one container is seen through the other, as in the program.     *)
(*                                                                         *)
(* Time is counted in whole hours.  Strings are TLA+ strings; a hardware   *)
(* address is the sequence of its colon-separated groups.                  *)
(***************************************************************************)
EXTENDS Integers, Sequences, FiniteSets, TLC

VARIABLES now, active_alerts, alert_history, acknowledged_alerts, response,
          access_points, devices, new_alerts, pc, threads, alert_rules

vars == <<now, active_alerts, alert_history, acknowledged_alerts, response,
          access_points, devices, new_alerts, pc, threads, alert_rules>>

storeVars == <<now, active_alerts, alert_history, acknowledged_alerts, response>>

detectVars == <<access_points, devices, new_alerts, pc, threads>>

(***************************************************************************)
(* Bounds of the model.                                                    *)
(***************************************************************************)
MaxTime == 25

MaxSkew == 2

MaxHistory == 2

MaxRogueAPs == 4

MaxWeakAPs == 3

MaxDevices == 4

NumThreads == 2

MaxGroup == 6

(***************************************************************************)
(* Values                                                                  *)
(***************************************************************************)
\* Python's None for a string-valued field.
Null == "<null>"

\* not x, for x a string or None
Falsy(x) == x = "" \/ x = Null

\* a comparison of the field as it is spelled
UpperIdentity(s) == s

\* str.upper() on the vocabulary of the model
Upper(s) ==
    CASE s = "wep" -> "WEP"
      [] s = "wpa" -> "WPA"
      [] s = "Wpa" -> "WPA"
      [] s = "wpa2" -> "WPA2"
      [] s = "none" -> "NONE"
      [] s = "unknown" -> "UNKNOWN"
      [] s = "1a" -> "1A"
      [] s = "2b" -> "2B"
      [] s = "aa" -> "AA"
      [] s = "bb" -> "BB"
      [] s = "cc" -> "CC"
      [] OTHER -> s

Range(f) == {f[x] : x \in DOMAIN f}

\* an empty dict
EmptyMap == [k \in {} |-> 0]

Min(a, b) == IF a <= b THEN a ELSE b

(***************************************************************************)
(* Rule catalog                                                            *)
(***************************************************************************)
Lit(s) == [lit |-> s]

Field(f) == [field |-> f]

_initialize_alert_rules ==
    [rogue_ap |->
        [enabled |-> TRUE, severity |-> "high",
         message |-> <<Lit("Rogue access point detected: "), Field("ssid"),
                       Lit(" ("), Field("bssid"), Lit(")")>>,
         suppress_after |-> 24,
         thresholds |-> [signal_strength |-> -70, encryption |-> {"NONE", "WEP"}]],
     mac_spoofing |->
        [enabled |-> TRUE, severity |-> "high",
         message |-> <<Lit("Possible MAC address spoofing detected for vendor "),
                       Field("vendor")>>,
         suppress_after |-> 1,
         thresholds |-> [same_vendor_macs |-> 3]],
     weak_encryption |->
        [enabled |-> TRUE, severity |-> "medium",
         message |-> <<Lit("Weak encryption detected: "), Field("ssid"),
                       Lit(" uses "), Field("encryption")>>,
         suppress_after |-> 24,
         thresholds |-> [weak_encryption_types |-> {"WEP", "WPA"}]]]

\* the placeholders a message template references
Placeholders(template) ==
    {template[i].field : i \in {j \in DOMAIN template : "field" \in DOMAIN template[j]}}

\* str.format(**details); CanFormat is false when a placeholder has no value
\* in details (KeyError)
RECURSIVE Format(_, _)
Format(template, details) ==
    IF template = <<>> THEN ""
    ELSE LET piece == Head(template)
             text  == IF "lit" \in DOMAIN piece THEN piece.lit
                      ELSE details[piece.field]
         IN  text \o Format(Tail(template), details)

CanFormat(template, details) == Placeholders(template) \subseteq DOMAIN details

\* The message of an alert whose template names a field that details lacks:
\* str.format raises KeyError, which leaves analyze_devices.
KeyError == "<KeyError>"

\* _create_alert that renders the message from the source alone
CreateAlertFromSource(alert_type, alert_id, source, details, t) ==
    [alert_id |-> alert_id,
     alert_type |-> alert_type,
     severity |-> alert_rules[alert_type].severity,
     message |-> IF CanFormat(alert_rules[alert_type].message, [source |-> source])
                 THEN Format(alert_rules[alert_type].message, [source |-> source])
                 ELSE KeyError,
     timestamp |-> t,
     source |-> source,
     details |-> [source |-> source],
     acknowledged |-> FALSE]

\* _create_alert that gives every alert the default severity
CreateAlertDefaultSeverity(alert_type, alert_id, source, details, t) ==
    [alert_id |-> alert_id,
     alert_type |-> alert_type,
     severity |-> "medium",
     message |-> Format(alert_rules[alert_type].message, details),
     timestamp |-> t,
     source |-> source,
     details |-> details,
     acknowledged |-> FALSE]

\* AlertSystem._create_alert at time t
_create_alert(alert_type, alert_id, source, details, t) ==
    LET rule == alert_rules[alert_type]
    IN  [alert_id |-> alert_id,
         alert_type |-> alert_type,
         severity |-> rule.severity,
         message |-> IF CanFormat(rule.message, details)
                     THEN Format(rule.message, details) ELSE KeyError,
         timestamp |-> t,
         source |-> source,
         details |-> details,
         acknowledged |-> FALSE]

(***************************************************************************)
(* Detection: the first half of AlertSystem.analyze_devices                *)
(***************************************************************************)
\* A run of the detection loops either yields the candidate list or is
\* aborted by an exception (ok = FALSE).
Aborted == [ok |-> FALSE, alerts |-> <<>>]

\* a test of the SSID alone
IsRogueAnyRepeat(ap_ssids, ssid, bssid) == ssid \in DOMAIN ap_ssids

\* the test "ssid in ap_ssids and bssid != ap_ssids[ssid]"
IsRogueAP(ap_ssids, ssid, bssid) == ssid \in DOMAIN ap_ssids /\ bssid # ap_ssids[ssid]

\* ap_ssids[ssid] = bssid
SetItem(map, key, value) ==
    [k \in DOMAIN map \cup {key} |-> IF k = key THEN value ELSE map[k]]

\* the test of the weak encryption check, on the upper-cased field
IsWeak(encryption) ==
    encryption \in alert_rules["weak_encryption"].thresholds.weak_encryption_types

\* The loop over access_points.  ap_ssids maps an SSID to its first BSSID.
RECURSIVE APLoop(_, _, _, _)
APLoop(aps, ap_ssids, alerts, t) ==
    IF aps = <<>> THEN [ok |-> TRUE, alerts |-> alerts]
    ELSE
      LET ap    == Head(aps)
          ssid  == ap.ssid
          bssid == ap.bssid
      IN
      IF Falsy(ssid) \/ Falsy(bssid) THEN APLoop(Tail(aps), ap_ssids, alerts, t)
      ELSE
        LET isRogue == IsRogueAP(ap_ssids, ssid, bssid)
            rogue == IF isRogue
                     THEN <<_create_alert("rogue_ap", "rogue_ap_" \o bssid, bssid,
                                          [ssid |-> ssid, bssid |-> bssid], t)>>
                     ELSE <<>>
            ap_ssids2 == IF isRogue THEN ap_ssids ELSE SetItem(ap_ssids, ssid, bssid)
        IN
        IF ap.encryption = Null THEN Aborted
        ELSE
          LET encryption == Upper(ap.encryption)
              weak == IF IsWeak(encryption)
                      THEN <<_create_alert("weak_encryption", "weak_enc_" \o bssid, bssid,
                                 [ssid |-> ssid, bssid |-> bssid,
                                  encryption |-> encryption], t)>>
                      ELSE <<>>
          IN  APLoop(Tail(aps), ap_ssids2, alerts \o rogue \o weak, t)

\* Hardware addresses: the sequence of the colon-separated groups of the
\* string; <<>> is the empty string and NoneMac is Python's None.
NoneMac == <<Null>>

RECURSIVE JoinColon(_)
JoinColon(groups) ==
    IF groups = <<>> THEN ""
    ELSE IF Len(groups) = 1 THEN groups[1]
    ELSE groups[1] \o ":" \o JoinColon(Tail(groups))

UpperMac(mac) == [i \in DOMAIN mac |-> Upper(mac[i])]

OuiOf(mac) == JoinColon(SubSeq(mac, 1, Min(3, Len(mac))))

\* The loop over devices.  order lists the keys of oui_devices in insertion
\* order, groups is oui_devices.
RECURSIVE DeviceLoop(_, _, _)
DeviceLoop(devs, order, groups) ==
    IF devs = <<>> THEN [ok |-> TRUE, order |-> order, groups |-> groups]
    ELSE
      IF Head(devs).mac = NoneMac THEN [ok |-> FALSE, order |-> <<>>, groups |-> EmptyMap]
      ELSE
        LET mac == UpperMac(Head(devs).mac)
        IN
        IF JoinColon(mac) = "" \/ Len(mac) < 2 THEN DeviceLoop(Tail(devs), order, groups)
        ELSE
          LET oui == OuiOf(mac)
              known == oui \in DOMAIN groups
              order2 == IF known THEN order ELSE Append(order, oui)
              groups2 == [o \in DOMAIN groups \cup {oui} |->
                            IF o = oui
                            THEN (IF known THEN groups[o] ELSE {}) \cup {JoinColon(mac)}
                            ELSE groups[o]]
          IN  DeviceLoop(Tail(devs), order2, groups2)

oui_devices(devs) == DeviceLoop(devs, <<>>, EmptyMap)

\* AlertSystem._get_vendor_name
_get_vendor_name(oui) ==
    CASE oui = "00:1A:2B" -> "Cisco"
      [] oui = "00:0C:29" -> "VMware"
      [] oui = "00:50:56" -> "VMware"
      [] oui = "00:1C:42" -> "Parallels"
      [] oui = "08:00:27" -> "Oracle VirtualBox"
      [] oui = "08:00:0B" -> "Intel"
      [] oui = "00:1B:63" -> "Apple"
      [] oui = "00:03:93" -> "Apple"
      [] oui = "00:0A:27" -> "Apple"
      [] oui = "00:1D:4F" -> "Apple"
      [] oui = "00:1E:52" -> "Apple"
      [] OTHER -> ""

\* a listing that is not cut short
WholeGroup(S) == {S}

\* list(macs)[:5].  The iteration order of a Python set is not determined, so
\* the slice is some min(5, len) members of the set; the model keeps the
\* members of the slice and leaves their order out.
FirstFive(S) == {T \in SUBSET S : Cardinality(T) = Min(5, Cardinality(S))}

\* One slice for every group of oui_devices: the outcomes of the iteration
\* order for one device list.
SetOrders(devs) ==
    LET d == oui_devices(devs)
    IN  IF ~d.ok THEN {EmptyMap}
        ELSE {f \in [DOMAIN d.groups -> SUBSET UNION Range(d.groups)] :
                 \A o \in DOMAIN d.groups : f[o] \in FirstFive(d.groups[o])}

\* a threshold that the group has to exceed
ExceedsThreshold(macs) ==
    Cardinality(macs) > 3

\* the test len(macs) >= thresholds['same_vendor_macs']
ReachesThreshold(macs) ==
    Cardinality(macs) >= alert_rules["mac_spoofing"].thresholds.same_vendor_macs

\* The loop over oui_devices.items()
RECURSIVE SpoofLoop(_, _, _, _)
SpoofLoop(order, groups, listing, t) ==
    IF order = <<>> THEN <<>>
    ELSE
      LET oui  == Head(order)
          macs == groups[oui]
          rest == SpoofLoop(Tail(order), groups, listing, t)
      IN
      IF ReachesThreshold(macs)
      THEN LET name == _get_vendor_name(oui)
               vendor == IF name # "" THEN name ELSE "OUI " \o oui
           IN  <<_create_alert("mac_spoofing", "mac_spoofing_" \o oui, oui,
                     [vendor |-> vendor, oui |-> oui,
                      device_count |-> Cardinality(macs),
                      mac_addresses |-> listing[oui]],
                     t)>> \o rest
      ELSE rest

\* a detection that leaves out the conditions whose alert is active
DetectUnlessActive(aps, devs, listing, t) ==
    LET a == APLoop(aps, EmptyMap, <<>>, t)
        d == oui_devices(devs)
    IN  IF ~a.ok \/ ~d.ok THEN Aborted
        ELSE [ok |-> TRUE,
              alerts |-> SelectSeq(a.alerts \o SpoofLoop(d.order, d.groups, listing, t),
                                   LAMBDA alert : alert.alert_id \notin DOMAIN active_alerts)]

\* The candidates of one cycle (new_alerts before admission); listing gives
\* list(macs)[:5] for every group.
Detect(aps, devs, listing, t) ==
    LET a == APLoop(aps, EmptyMap, <<>>, t)
        d == oui_devices(devs)
    IN  IF ~a.ok \/ ~d.ok THEN Aborted
        ELSE LET alerts == a.alerts \o SpoofLoop(d.order, d.groups, listing, t)
             IN  IF \E i \in DOMAIN alerts : alerts[i].message = KeyError
                 THEN Aborted
                 ELSE [ok |-> TRUE, alerts |-> alerts]

(***************************************************************************)
(* Alert store: the second half of analyze_devices, and acknowledge_alert  *)
(***************************************************************************)
\* The alert object stored under an active id.
ActiveAlert(active, history, id) == history[active[id]]

\* _add_alert that keeps the history newest first
AddAlertNewestFirst(store, alert) ==
    IF alert.alert_id \notin DOMAIN store.active
    THEN [active  |-> [id \in DOMAIN store.active \cup {alert.alert_id} |->
                          IF id = alert.alert_id THEN Len(store.history) + 1
                          ELSE store.active[id]],
          history |-> <<alert>> \o store.history]
    ELSE store

\* _add_alert without the test on active_alerts: every candidate is stored.
AddAlertAlways(store, alert) ==
    [active  |-> [id \in DOMAIN store.active \cup {alert.alert_id} |->
                     IF id = alert.alert_id THEN Len(store.history) + 1
                     ELSE store.active[id]],
     history |-> Append(store.history, alert)]

\* _add_alert that refreshes the timestamp of an alert detected again.
AddAlertRefresh(store, alert) ==
    IF alert.alert_id \notin DOMAIN store.active
    THEN AddAlertAlways(store, alert)
    ELSE [active  |-> store.active,
          history |-> [store.history EXCEPT
                         ![store.active[alert.alert_id]].timestamp = alert.timestamp]]

\* AlertSystem._add_alert on the pair of containers
_add_alert(store, alert) ==
    IF alert.alert_id \notin DOMAIN store.active
    THEN [active  |-> [id \in DOMAIN store.active \cup {alert.alert_id} |->
                          IF id = alert.alert_id THEN Len(store.history) + 1
                          ELSE store.active[id]],
          history |-> Append(store.history, alert)]
    ELSE store

\* for alert in new_alerts: self._add_alert(alert)
RECURSIVE AddAll(_, _)
AddAll(store, alerts) ==
    IF alerts = <<>> THEN store
    ELSE AddAll(_add_alert(store, Head(alerts)), Tail(alerts))

\* a test that retires every alert an hour after it was raised
ExpiredHourly(alert, t) ==
    (t - alert.timestamp) >= 1

\* the test with >= for >
ExpiredInclusive(alert, t) ==
    (t - alert.timestamp) >= alert_rules[alert.alert_type].suppress_after

\* the test of _cleanup_old_alerts for one alert, at time t
Expired(alert, t) ==
    (t - alert.timestamp) > alert_rules[alert.alert_type].suppress_after

\* an expiry that spares the acknowledged alerts
CleanupSparesAcknowledged(store, t) ==
    [active  |-> [id \in {i \in DOMAIN store.active :
                             \/ ~Expired(store.history[store.active[i]], t)
                             \/ store.history[store.active[i]].acknowledged} |->
                     store.active[id]],
     history |-> store.history]

\* analyze_devices without the expiry step
CleanupNothing(store, t) == store

\* _cleanup_old_alerts that also clears the history once no alert is active.
CleanupDropsHistory(store, t) ==
    LET keep == {i \in DOMAIN store.active : ~Expired(store.history[store.active[i]], t)}
    IN  [active  |-> [id \in keep |-> store.active[id]],
         history |-> IF keep = {} THEN <<>> ELSE store.history]

\* AlertSystem._cleanup_old_alerts at time t
_cleanup_old_alerts(store, t) ==
    [active  |-> [id \in {i \in DOMAIN store.active :
                             ~Expired(store.history[store.active[i]], t)} |->
                     store.active[id]],
     history |-> store.history]

\* Alert.to_dict
to_dict(alert) ==
    [id |-> alert.alert_id,
     type |-> alert.alert_type,
     severity |-> alert.severity,
     message |-> alert.message,
     timestamp |-> alert.timestamp,
     source |-> alert.source,
     details |-> alert.details,
     acknowledged |-> alert.acknowledged]

\* analyze_devices with the expiry ahead of the admission
AnalyzeExpiresFirst(store, aps, devs, listing, t) ==
    LET d == Detect(aps, devs, listing, t)
        admitted == AddAll(_cleanup_old_alerts(store, t), d.alerts)
    IN  IF d.ok
        THEN [ok |-> TRUE, active |-> admitted.active, history |-> admitted.history,
              returned |-> [i \in DOMAIN d.alerts |-> to_dict(d.alerts[i])]]
        ELSE [ok |-> FALSE, active |-> store.active, history |-> store.history,
              returned |-> <<>>]

\* AlertSystem.analyze_devices at time t on the containers in store: the
\* containers after the call and the list it returns; ok is false when an
\* exception leaves the method.
analyze_devices(store, aps, devs, listing, t) ==
    LET d == Detect(aps, devs, listing, t)
        cleaned == _cleanup_old_alerts(AddAll(store, d.alerts), t)
    IN  IF d.ok
        THEN [ok |-> TRUE, active |-> cleaned.active, history |-> cleaned.history,
              returned |-> [i \in DOMAIN d.alerts |-> to_dict(d.alerts[i])]]
        ELSE [ok |-> FALSE, active |-> store.active, history |-> store.history,
              returned |-> <<>>]

\* acknowledge_alert that runs the age test before it answers.
AcknowledgeFreshOnly(active, history, acked, alert_id) ==
    IF alert_id \notin DOMAIN active \/ Expired(history[active[alert_id]], now)
    THEN [status |-> 404, history |-> history, acked |-> acked]
    ELSE [status |-> 200,
          history |-> [history EXCEPT ![active[alert_id]].acknowledged = TRUE],
          acked |-> acked \cup {alert_id}]

\* acknowledge_alert that flips the flag instead of setting it.
AcknowledgeToggle(active, history, acked, alert_id) ==
    IF alert_id \notin DOMAIN active
    THEN [status |-> 404, history |-> history, acked |-> acked]
    ELSE [status |-> 200,
          history |-> [history EXCEPT ![active[alert_id]].acknowledged =
                                         ~history[active[alert_id]].acknowledged],
          acked |-> acked \cup {alert_id}]

\* acknowledge_alert that records the id before it looks the alert up.
AcknowledgeRecordsFirst(active, history, acked, alert_id) ==
    IF alert_id \notin DOMAIN active
    THEN [status |-> 404, history |-> history, acked |-> acked \cup {alert_id}]
    ELSE [status |-> 200,
          history |-> [history EXCEPT ![active[alert_id]].acknowledged = TRUE],
          acked |-> acked \cup {alert_id}]

\* acknowledge_alert that sets the flag and does not record the id.
AcknowledgeNoRecord(active, history, acked, alert_id) ==
    IF alert_id \notin DOMAIN active
    THEN [status |-> 404, history |-> history, acked |-> acked]
    ELSE [status |-> 200,
          history |-> [history EXCEPT ![active[alert_id]].acknowledged = TRUE],
          acked |-> acked]

\* acknowledge_alert(alert_id) on the containers and the acknowledged set
Acknowledge(active, history, acked, alert_id) ==
    IF alert_id \notin DOMAIN active
    THEN [status |-> 404, history |-> history, acked |-> acked]
    ELSE [status |-> 200,
          history |-> [history EXCEPT ![active[alert_id]].acknowledged = TRUE],
          acked |-> acked \cup {alert_id}]

(***************************************************************************)
(* Snapshots the requests of the model carry                               *)
(***************************************************************************)
CafeAP == [ssid |-> "Cafe", bssid |-> "AA:01", encryption |-> "WPA2"]

CafeTwin == [ssid |-> "Cafe", bssid |-> "AA:02", encryption |-> "WPA2"]

CafeWeak == [ssid |-> "Cafe", bssid |-> "AA:02", encryption |-> "wep"]

\* The genuine access point; a second BSSID under its SSID; a weakly
\* encrypted access point, once and reported twice.
SnapAPLists ==
    {<<CafeAP>>, <<CafeAP, CafeTwin>>, <<CafeWeak>>, <<CafeWeak, CafeWeak>>}

\* No device, or three devices of one vendor.
SnapDevices ==
    {<<>>,
     <<[mac |-> <<"00", "1a", "2b", "00", "00", "01">>],
       [mac |-> <<"00", "1a", "2b", "00", "00", "02">>],
       [mac |-> <<"00", "1a", "2b", "00", "00", "03">>]>>}

\* The ids these snapshots can raise, and one id that is never raised.
AlertIds ==
    {"rogue_ap_AA:02", "weak_enc_AA:02", "mac_spoofing_00:1A:2B", "unknown_id"}

\* The last response: the operation, its HTTP status, the id the request
\* named, and the ids of the alerts the operation returned, in order.
NoResponse == [op |-> "none", status |-> 0, alert_id |-> "", ids |-> <<>>]

Init ==
    /\ now = 0
    /\ active_alerts = EmptyMap
    /\ alert_history = <<>>
    /\ acknowledged_alerts = {}
    /\ response = NoResponse
    /\ access_points = <<>>
    /\ devices = <<>>
    /\ new_alerts = <<>>
    /\ pc = "idle"
    /\ threads = <<>>
    /\ alert_rules = _initialize_alert_rules

\* The wall clock advances between requests, by an hour or by a day; the
\* model follows the clock for MaxSkew hours after each whole day.
Tick ==
    /\ \E d \in {1, 24} :
          /\ now + d <= MaxTime
          /\ (now + d) % 24 <= MaxSkew
          /\ now' = now + d
    /\ UNCHANGED <<active_alerts, alert_history, acknowledged_alerts, response>>
    /\ UNCHANGED detectVars
    /\ UNCHANGED alert_rules

Store == [active |-> active_alerts, history |-> alert_history]

\* GET /api/alerts: one call of AlertSystem.analyze_devices on a snapshot.
get_alerts ==
    /\ \E aps \in SnapAPLists, devs \in SnapDevices :
         \E listing \in SetOrders(devs) :
           \E r \in {analyze_devices(Store, aps, devs, listing, now)} :
               /\ Len(r.history) <= MaxHistory
               /\ active_alerts' = r.active
               /\ alert_history' = r.history
               /\ response' = [op |-> "analyze", status |-> IF r.ok THEN 200 ELSE 500,
                               alert_id |-> "",
                               ids |-> [i \in DOMAIN r.returned |-> r.returned[i].id]]
    /\ UNCHANGED <<now, acknowledged_alerts>>
    /\ UNCHANGED detectVars
    /\ UNCHANGED alert_rules

\* POST /api/alerts/<alert_id>/acknowledge
acknowledge_alert ==
    /\ \E alert_id \in AlertIds :
         \E r \in {Acknowledge(active_alerts, alert_history, acknowledged_alerts, alert_id)} :
             /\ alert_history' = r.history
             /\ acknowledged_alerts' = r.acked
             /\ response' = [op |-> "acknowledge", status |-> r.status,
                             alert_id |-> alert_id,
                             ids |-> IF r.status = 200 THEN <<alert_id>> ELSE <<>>]
    /\ UNCHANGED <<now, active_alerts>>
    /\ UNCHANGED detectVars
    /\ UNCHANGED alert_rules

Next == Tick \/ get_alerts \/ acknowledge_alert

Spec == Init /\ [][Next]_vars

(***************************************************************************)
(* Cycles on a store that earlier cycles and acknowledgments have filled,  *)
(* with the snapshot and the candidates of the last cycle on record.       *)
(***************************************************************************)
\* The query parameter acknowledged of GET /api/alerts: absent, or a string
\* that is compared with 'true'.
AcknowledgedFilters == {Null, "true", "false"}

\* The loop of get_alerts over the dictionaries analyze_devices returned,
\* with the filter on the acknowledged flag.  The alerts of one call carry
\* the same timestamp, so that the sort leaves their order.
FilterAlerts(alerts, acknowledged_filter) ==
    SelectSeq(alerts, LAMBDA alert :
                ~(acknowledged_filter # Null
                    /\ alert.acknowledged # (acknowledged_filter = "true")))

\* GET /api/alerts on a snapshot: new_alerts is the local list when
\* analyze_devices returns, and the response records the filter of the
\* request and the alerts it lists.
AnalyzeSnapshot ==
    /\ \E aps \in SnapAPLists, devs \in SnapDevices, acknowledged_filter \in AcknowledgedFilters :
         \E listing \in SetOrders(devs) :
           \E d \in {Detect(aps, devs, listing, now)} :
             \E store \in {_cleanup_old_alerts(AddAll(Store, d.alerts), now)} :
              \E filtered_alerts \in {FilterAlerts([i \in DOMAIN d.alerts |-> to_dict(d.alerts[i])],
                                                  acknowledged_filter)} :
               /\ d.ok
               /\ Len(store.history) <= MaxHistory
               /\ access_points' = aps
               /\ devices' = devs
               /\ new_alerts' = d.alerts
               /\ pc' = "detected"
               /\ active_alerts' = store.active
               /\ alert_history' = store.history
               /\ response' = [op |-> "analyze", status |-> 200, alert_id |-> "",
                               ids |-> [i \in DOMAIN filtered_alerts |-> filtered_alerts[i].id],
                               acknowledged |-> acknowledged_filter,
                               alerts |-> filtered_alerts]
    /\ UNCHANGED <<now, acknowledged_alerts, threads, alert_rules>>

StoreNext == AnalyzeSnapshot \/ acknowledge_alert

StoreSpec == Init /\ [][StoreNext]_vars

(***************************************************************************)
(* The detection loops on their own, over every access point list of a     *)
(* bounded vocabulary.                                                     *)
(***************************************************************************)
SeqsUpTo(S, n) == UNION {[1..k -> S] : k \in 0..n}

\* Two SSIDs and a missing one, three BSSIDs.
RogueRecords ==
    [ssid : {"", "Cafe", "Home"}, bssid : {"AA:01", "AA:02", "AA:03"},
     encryption : {"WPA2"}]

\* Every spelling of the encryption field, with and without SSID.
WeakRecords ==
    [ssid : {"", "Cafe"}, bssid : {"AA:01", "AA:02"},
     encryption : {"wep", "Wpa", "WPA", "WPA2", "NONE", "unknown"}]

APLists == SeqsUpTo(RogueRecords, MaxRogueAPs) \cup SeqsUpTo(WeakRecords, MaxWeakAPs)

DetectInit ==
    /\ now = 0
    /\ active_alerts = EmptyMap
    /\ alert_history = <<>>
    /\ acknowledged_alerts = {}
    /\ response = NoResponse
    /\ access_points \in APLists
    /\ devices = <<>>
    /\ new_alerts = <<>>
    /\ pc = "start"
    /\ threads = <<>>
    /\ alert_rules = _initialize_alert_rules

\* analyze_devices up to the end of the detection loops
Evaluate ==
    /\ pc = "start"
    /\ \E listing \in SetOrders(devices) :
         \E d \in {Detect(access_points, devices, listing, now)} :
           /\ new_alerts' = d.alerts
           /\ pc' = IF d.ok THEN "detected" ELSE "aborted"
    /\ UNCHANGED <<access_points, devices, threads, alert_rules>>
    /\ UNCHANGED storeVars

DetectSpec == DetectInit /\ [][Evaluate]_vars

(***************************************************************************)
(* The detection loops over every device list of a bounded vocabulary.     *)
(***************************************************************************)
\* Three devices of one vendor, the first of them also in upper case, a
\* device of a second vendor and one of a vendor the table does not know.
SpoofMacs ==
    {<<"00", "1a", "2b", "00", "00", "01">>,
     <<"00", "1a", "2b", "00", "00", "02">>,
     <<"00", "1a", "2b", "00", "00", "03">>,
     <<"00", "1A", "2B", "00", "00", "01">>,
     <<"08", "00", "27", "00", "00", "01">>,
     <<"aa", "bb", "cc", "00", "00", "01">>}

DeviceLists == SeqsUpTo([mac : SpoofMacs], MaxDevices)

DeviceInit ==
    /\ now = 0
    /\ active_alerts = EmptyMap
    /\ alert_history = <<>>
    /\ acknowledged_alerts = {}
    /\ response = NoResponse
    /\ access_points = <<>>
    /\ devices \in DeviceLists
    /\ new_alerts = <<>>
    /\ pc = "start"
    /\ threads = <<>>
    /\ alert_rules = _initialize_alert_rules

DeviceSpec == DeviceInit /\ [][Evaluate]_vars

(***************************************************************************)
(* The detection loops over the access point lists and the device lists.   *)
(***************************************************************************)
CandidateInit == DetectInit \/ DeviceInit

CandidateSpec == CandidateInit /\ [][Evaluate]_vars

(***************************************************************************)
(* The detection loops over groups of up to MaxGroup devices of a vendor   *)
(* the table knows and of one it does not know.                            *)
(***************************************************************************)
GroupOuis == {<<"00", "1a", "2b">>, <<"aa", "bb", "cc">>}

GroupLists ==
    UNION {{[i \in 1..n |-> [mac |-> f[i] \o <<"00", "00", "0" \o ToString(i)>>]] :
               f \in [1..n -> GroupOuis]} : n \in 0..MaxGroup}

GroupInit ==
    /\ now = 0
    /\ active_alerts = EmptyMap
    /\ alert_history = <<>>
    /\ acknowledged_alerts = {}
    /\ response = NoResponse
    /\ access_points = <<>>
    /\ devices \in GroupLists
    /\ new_alerts = <<>>
    /\ pc = "start"
    /\ threads = <<>>
    /\ alert_rules = _initialize_alert_rules

GroupSpec == GroupInit /\ [][Evaluate]_vars

(***************************************************************************)
(* The assembled pipeline: DataLoader processes the raw devices, and the   *)
(* detection loops run on what it stores.                                  *)
(***************************************************************************)
\* str.lower() on the groups of the model
Lower(s) ==
    CASE s = "1A" -> "1a"
      [] s = "2B" -> "2b"
      [] s = "AA" -> "aa"
      [] s = "BB" -> "bb"
      [] s = "CC" -> "cc"
      [] OTHER -> s

\* ''.join(c.lower() for c in mac_address if c.isalnum()): the groups in
\* lower case, without their separators
RECURSIVE Normalize(_)
Normalize(mac) ==
    IF mac = <<>> THEN "" ELSE Lower(Head(mac)) \o Normalize(Tail(mac))

ValueError == <<"<ValueError>">>

\* hash_mac_address: None for no address, ValueError for an address that is
\* not twelve hex digits, else the first twelve hex digits of the salted
\* SHA-256 of the normalized address: one group, without a separator.
hash_mac_address(mac) ==
    IF mac = NoneMac \/ JoinColon(mac) = "" THEN NoneMac
    ELSE IF Len(mac) # 6 THEN ValueError
    ELSE <<"sha256(" \o Normalize(mac) \o ")">>

\* DataLoader._process_device: the mac field holds the hash
_process_device(device) == [mac |-> hash_mac_address(device.mac)]

\* Real addresses of two vendors, in lower and in upper case.
RawMacs ==
    {oui \o <<"00", "00", last>> :
        oui \in {<<"00", "1a", "2b">>, <<"00", "1A", "2B">>, <<"aa", "bb", "cc">>},
        last \in {"01", "02", "03"}}

\* the raw device lists in which three distinct addresses share an OUI
RawLists ==
    {raw \in SeqsUpTo([mac : RawMacs], MaxDevices) :
        \E oui \in {"00:1A:2B", "AA:BB:CC"} :
           Cardinality({JoinColon(UpperMac(raw[i].mac)) :
                          i \in {j \in DOMAIN raw : OuiOf(UpperMac(raw[j].mac)) = oui}}) >= 3}

PipelineInit ==
    /\ now = 0
    /\ active_alerts = EmptyMap
    /\ alert_history = <<>>
    /\ acknowledged_alerts = {}
    /\ response = NoResponse
    /\ access_points = <<>>
    /\ devices \in RawLists
    /\ new_alerts = <<>>
    /\ pc = "raw"
    /\ threads = <<>>
    /\ alert_rules = _initialize_alert_rules

\* DataLoader._process_raw_data: every raw device is replaced by its
\* processed record; a ValueError of the hash leaves the loader.
load_data ==
    /\ pc = "raw"
    /\ \E loaded \in {[i \in DOMAIN devices |-> _process_device(devices[i])]} :
         IF \E i \in DOMAIN loaded : loaded[i].mac = ValueError
         THEN pc' = "aborted" /\ UNCHANGED devices
         ELSE pc' = "start" /\ devices' = loaded
    /\ UNCHANGED <<access_points, new_alerts, threads, alert_rules>>
    /\ UNCHANGED storeVars

PipelineNext == load_data \/ Evaluate

PipelineSpec == PipelineInit /\ [][PipelineNext]_vars

(***************************************************************************)
(* The detection loops over records that lack a field.                     *)
(***************************************************************************)
\* Access points whose ssid or bssid is None or empty, or whose encryption
\* is None, next to complete ones.
LackingRecords ==
    [ssid : {Null, "", "Cafe"}, bssid : {"", "AA:01", "AA:02"},
     encryption : {Null, "wep", "WPA2"}]

\* A mac that is None, empty, without a colon, of two groups, and three
\* complete ones of one vendor.
LackingMacs ==
    {NoneMac, <<>>, <<"aabb">>, <<"aa", "bb">>,
     <<"00", "1a", "2b", "00", "00", "01">>,
     <<"00", "1a", "2b", "00", "00", "02">>,
     <<"00", "1a", "2b", "00", "00", "03">>}

LackingInit ==
    /\ now = 0
    /\ active_alerts = EmptyMap
    /\ alert_history = <<>>
    /\ acknowledged_alerts = {}
    /\ response = NoResponse
    /\ \/ /\ access_points \in SeqsUpTo(LackingRecords, MaxWeakAPs)
          /\ devices = <<>>
       \/ /\ access_points = <<>>
          /\ devices \in SeqsUpTo([mac : LackingMacs], MaxDevices)
    /\ new_alerts = <<>>
    /\ pc = "start"
    /\ threads = <<>>
    /\ alert_rules = _initialize_alert_rules

LackingSpec == LackingInit /\ [][Evaluate]_vars

(***************************************************************************)
(* Requests handled concurrently.  app.run serves every request in a       *)
(* thread of its own, and neither the routes nor AlertSystem take a lock,  *)
(* so the statements of two handlers interleave.  threads[t] is the        *)
(* position of thread t in its handler and the handler's locals: pending   *)
(* is the rest of new_alerts in the admission loop, alert_id the id of     *)
(* the URL and target the alert object acknowledge_alert looked up.        *)
(***************************************************************************)
Threads == 1..NumThreads

IdleThread == [pc |-> "idle", pending |-> <<>>, alert_id |-> "", target |-> 0]

\* The access point lists and the ids the concurrent requests carry.
ConcurrentSnaps == {<<CafeWeak>>, <<CafeAP, CafeTwin>>}

ConcurrentIds == {"weak_enc_AA:02", "rogue_ap_AA:02"}

ConcurrentInit ==
    /\ now = 0
    /\ active_alerts = EmptyMap
    /\ alert_history = <<>>
    /\ acknowledged_alerts = {}
    /\ response = NoResponse
    /\ access_points = <<>>
    /\ devices = <<>>
    /\ new_alerts = <<>>
    /\ pc = "idle"
    /\ threads = [t \in Threads |-> IdleThread]
    /\ alert_rules = _initialize_alert_rules

\* get_alerts enters analyze_devices: the detection loops fill new_alerts
BeginAnalyze(t) ==
    /\ threads[t].pc = "idle"
    /\ \E aps \in ConcurrentSnaps :
         \E d \in {Detect(aps, <<>>, EmptyMap, now)} :
            /\ d.ok
            /\ threads' = [threads EXCEPT ![t].pc = "admit", ![t].pending = d.alerts]
    /\ UNCHANGED storeVars
    /\ UNCHANGED <<access_points, devices, new_alerts, pc, alert_rules>>

\* for alert in new_alerts: the test "alert.alert_id not in active_alerts"
AdmitCheck(t) ==
    /\ threads[t].pc = "admit"
    /\ threads' =
          IF threads[t].pending = <<>> THEN [threads EXCEPT ![t].pc = "cleanup"]
          ELSE IF Head(threads[t].pending).alert_id \notin DOMAIN active_alerts
          THEN [threads EXCEPT ![t].pc = "insert"]
          ELSE [threads EXCEPT ![t].pending = Tail(threads[t].pending)]
    /\ UNCHANGED storeVars
    /\ UNCHANGED <<access_points, devices, new_alerts, pc, alert_rules>>

\* the body of the test: the alert is stored and appended to the history
AdmitInsert(t) ==
    /\ threads[t].pc = "insert"
    /\ Len(alert_history) < MaxHistory
    /\ LET alert == Head(threads[t].pending)
       IN  /\ active_alerts' =
                 [id \in DOMAIN active_alerts \cup {alert.alert_id} |->
                    IF id = alert.alert_id THEN Len(alert_history) + 1
                    ELSE active_alerts[id]]
           /\ alert_history' = Append(alert_history, alert)
    /\ threads' = [threads EXCEPT ![t].pc = "admit",
                                  ![t].pending = Tail(threads[t].pending)]
    /\ UNCHANGED <<now, acknowledged_alerts, response>>
    /\ UNCHANGED <<access_points, devices, new_alerts, pc, alert_rules>>

\* self._cleanup_old_alerts() and the return of analyze_devices
Cleanup(t) ==
    /\ threads[t].pc = "cleanup"
    /\ active_alerts' = _cleanup_old_alerts(Store, now).active
    /\ threads' = [threads EXCEPT ![t] = IdleThread]
    /\ UNCHANGED <<now, alert_history, acknowledged_alerts, response>>
    /\ UNCHANGED <<access_points, devices, new_alerts, pc, alert_rules>>

\* acknowledge_alert: alert = active_alerts.get(alert_id), 404 if None
BeginAcknowledge(t) ==
    /\ threads[t].pc = "idle"
    /\ \E alert_id \in ConcurrentIds :
         /\ alert_id \in DOMAIN active_alerts
         /\ threads' = [threads EXCEPT ![t].pc = "flag", ![t].alert_id = alert_id,
                                       ![t].target = active_alerts[alert_id]]
    /\ UNCHANGED storeVars
    /\ UNCHANGED <<access_points, devices, new_alerts, pc, alert_rules>>

\* alert.acknowledged = True
AckFlag(t) ==
    /\ threads[t].pc = "flag"
    /\ alert_history' = [alert_history EXCEPT ![threads[t].target].acknowledged = TRUE]
    /\ threads' = [threads EXCEPT ![t].pc = "record"]
    /\ UNCHANGED <<now, active_alerts, acknowledged_alerts, response>>
    /\ UNCHANGED <<access_points, devices, new_alerts, pc, alert_rules>>

\* acknowledged_alerts.add(alert_id) and the response
AckRecord(t) ==
    /\ threads[t].pc = "record"
    /\ acknowledged_alerts' = acknowledged_alerts \cup {threads[t].alert_id}
    /\ threads' = [threads EXCEPT ![t] = IdleThread]
    /\ UNCHANGED <<now, active_alerts, alert_history, response>>
    /\ UNCHANGED <<access_points, devices, new_alerts, pc, alert_rules>>

ConcurrentNext ==
    \E t \in Threads :
       \/ BeginAnalyze(t)
       \/ AdmitCheck(t)
       \/ AdmitInsert(t)
       \/ Cleanup(t)
       \/ BeginAcknowledge(t)
       \/ AckFlag(t)
       \/ AckRecord(t)

ConcurrentSpec == ConcurrentInit /\ [][ConcurrentNext]_vars

(***************************************************************************)
(* Properties of the alert store                                           *)
(***************************************************************************)
\* A step of get_alerts, and a step of acknowledge_alert: the clock stands
\* still and the response is of the operation.
AnalyzeStep == now' = now /\ response'.op = "analyze"

AcknowledgeStep == now' = now /\ response'.op = "acknowledge"

\* the number of history entries with an id
Count(history, id) == Cardinality({i \in DOMAIN history : history[i].alert_id = id})

\* the positions a step appends to the history
Appended == (Len(alert_history) + 1)..Len(alert_history')

\* an alert but for its acknowledged flag
Unflagged(alert) == [alert EXCEPT !.acknowledged = FALSE]

\* C1: analyze_devices returns only newly raised alerts: the ids of the
\* alerts a call returns are exactly the ids the call inserted into the
\* history (and the active set).
C1_ReturnsOnlyNewAlerts ==
    [][AnalyzeStep =>
         Range(response'.ids) = {alert_history'[i].alert_id : i \in Appended}]_vars

\* C2: admission deduplicates by alert id.  In a call of analyze_devices, a
\* candidate whose id is active adds no history entry and leaves the active
\* record in place and as it was; a candidate whose id is not active adds
\* exactly one history entry, which becomes the active record of the id, also
\* when the call has the candidate twice; an id that is no candidate gets no
\* entry.
C2_AdmissionDedup ==
    [][AnalyzeStep =>
         \A id \in AlertIds :
           IF id \notin Range(response'.ids)
           THEN Count(alert_history', id) = Count(alert_history, id)
           ELSE IF id \in DOMAIN active_alerts
           THEN /\ Count(alert_history', id) = Count(alert_history, id)
                /\ alert_history'[active_alerts[id]] = alert_history[active_alerts[id]]
                /\ id \in DOMAIN active_alerts' => active_alerts'[id] = active_alerts[id]
           ELSE /\ Count(alert_history', id) = Count(alert_history, id) + 1
                /\ id \in DOMAIN active_alerts'
                /\ active_alerts'[id] \in Appended
                /\ alert_history'[active_alerts'[id]].alert_id = id
                /\ Cardinality(DOMAIN active_alerts') =
                     Cardinality({a \in DOMAIN active_alerts : a \in DOMAIN active_alerts'})
                       + Cardinality({a \in Range(response'.ids) : a \notin DOMAIN active_alerts})
    ]_vars

\* A call had one candidate twice and admitted it once.
C2_Witness ==
    /\ response.op = "analyze"
    /\ \E i, j \in DOMAIN response.ids :
         /\ i < j
         /\ response.ids[i] = response.ids[j]
         /\ response.ids[i] \in DOMAIN active_alerts
         /\ Count(alert_history, response.ids[i]) = 1

\* C3: while an alert stays active its timestamp keeps the value of its
\* first detection, whatever calls re-detect it or acknowledge it.
C3_CreatedAtFixed ==
    [][\A id \in DOMAIN active_alerts :
          id \in DOMAIN active_alerts' =>
             ActiveAlert(active_alerts', alert_history', id).timestamp =
                ActiveAlert(active_alerts, alert_history, id).timestamp]_vars

\* An alert raised earlier was acknowledged and then detected again by a
\* later call, and is still active.
C3_Witness ==
    /\ response.op = "analyze"
    /\ \E id \in DOMAIN active_alerts :
         /\ id \in Range(response.ids)
         /\ ActiveAlert(active_alerts, alert_history, id).acknowledged
         /\ ActiveAlert(active_alerts, alert_history, id).timestamp < now

\* C4: the history is append-only: every step keeps the entries it had, in
\* their places (the acknowledged flag aside), so an alert that has expired
\* from the active set is still in the history.
C4_HistoryAppendOnly ==
    [][/\ Len(alert_history') >= Len(alert_history)
       /\ \A i \in DOMAIN alert_history :
            Unflagged(alert_history'[i]) = Unflagged(alert_history[i])]_vars

\* An alert has expired from the active set and is in the history.
C4_Witness ==
    \E i \in DOMAIN alert_history :
       /\ Expired(alert_history[i], now)
       /\ alert_history[i].alert_id \notin DOMAIN active_alerts

\* C5: an alert is admitted with acknowledged = FALSE, the flag becomes TRUE
\* only in a successful acknowledge of the alert's id, and a flag that is
\* TRUE stays TRUE.
C5_AcknowledgedMonotone ==
    [][/\ \A i \in DOMAIN alert_history :
            /\ alert_history[i].acknowledged => alert_history'[i].acknowledged
            /\ (~alert_history[i].acknowledged /\ alert_history'[i].acknowledged) =>
                  /\ AcknowledgeStep
                  /\ response'.status = 200
                  /\ response'.alert_id = alert_history[i].alert_id
       /\ \A i \in Appended : ~alert_history'[i].acknowledged]_vars

\* An acknowledged alert expired, and its condition was detected and
\* admitted again: the old entry is still acknowledged.
C5_Witness ==
    \E i, j \in DOMAIN alert_history :
       /\ i < j
       /\ alert_history[i].alert_id = alert_history[j].alert_id
       /\ alert_history[i].acknowledged
       /\ ~alert_history[j].acknowledged

\* The suppress windows of the three rules, in hours, as the catalog of the
\* specification gives them.
C6_Window(alert_type) ==
    CASE alert_type = "mac_spoofing" -> 1
      [] alert_type = "rogue_ap" -> 24
      [] alert_type = "weak_encryption" -> 24

\* C6: the expiry of a call at time now removes from the active set exactly
\* the alerts older than the suppress window of their rule, and leaves their
\* history entries.
C6_ExpiryExact ==
    [][AnalyzeStep =>
         \A id \in DOMAIN active_alerts :
            LET alert == ActiveAlert(active_alerts, alert_history, id)
            IN  /\ id \in DOMAIN active_alerts' <=>
                      now - alert.timestamp <= C6_Window(alert.alert_type)
                /\ alert_history'[active_alerts[id]] = alert]_vars

\* After a call, a rogue_ap alert two hours old is active and a mac_spoofing
\* alert two hours old is in the history and not active.
C6_Witness ==
    /\ response.op = "analyze"
    /\ \E id \in DOMAIN active_alerts :
         /\ ActiveAlert(active_alerts, alert_history, id).alert_type = "rogue_ap"
         /\ now - ActiveAlert(active_alerts, alert_history, id).timestamp = 2
    /\ \E i \in DOMAIN alert_history :
         /\ alert_history[i].alert_type = "mac_spoofing"
         /\ now - alert_history[i].timestamp = 2
         /\ alert_history[i].alert_id \notin DOMAIN active_alerts

\* C7: acknowledge of an id that is not active answers 404 and changes
\* neither the active set, the history, the acknowledged set nor a flag.
C7_AcknowledgeNotFound ==
    [][AcknowledgeStep =>
         /\ response'.status \in {200, 404}
         /\ response'.alert_id \notin DOMAIN active_alerts =>
              /\ response'.status = 404
              /\ UNCHANGED <<active_alerts, alert_history, acknowledged_alerts>>]_vars

\* The answer was 404 for the id of an alert that is in the history and has
\* expired from the active set.
C7_Witness ==
    /\ response.op = "acknowledge"
    /\ response.status = 404
    /\ response.alert_id \notin DOMAIN active_alerts
    /\ \E i \in DOMAIN alert_history : alert_history[i].alert_id = response.alert_id

\* C8: acknowledge of an active id answers 200, sets the flag of that alert
\* and records the id, and changes nothing else: the same ids are active, the
\* history has the same entries with the same timestamps; on an alert already
\* acknowledged it changes nothing at all.
C8_AcknowledgeActive ==
    [][(AcknowledgeStep /\ response'.alert_id \in DOMAIN active_alerts) =>
         LET id == response'.alert_id
             flagged == ActiveAlert(active_alerts, alert_history, id).acknowledged
         IN  /\ response'.status = 200
             /\ ActiveAlert(active_alerts', alert_history', id).acknowledged
             /\ id \in acknowledged_alerts'
             /\ acknowledged_alerts' \ {id} = acknowledged_alerts \ {id}
             /\ active_alerts' = active_alerts
             /\ Len(alert_history') = Len(alert_history)
             /\ \A i \in DOMAIN alert_history :
                  /\ Unflagged(alert_history'[i]) = Unflagged(alert_history[i])
                  /\ i # active_alerts[id] => alert_history'[i] = alert_history[i]
             /\ flagged => UNCHANGED <<active_alerts, alert_history, acknowledged_alerts>>
    ]_vars

\* An active alert has been acknowledged: its flag is set and its id is
\* recorded.
C8_Witness ==
    /\ response.op = "acknowledge"
    /\ response.status = 200
    /\ response.alert_id \in DOMAIN active_alerts
    /\ ActiveAlert(active_alerts, alert_history, response.alert_id).acknowledged
    /\ response.alert_id \in acknowledged_alerts

(***************************************************************************)
(* Properties of the detection loops                                       *)
(***************************************************************************)
\* the positions of the access points that carry an SSID and a BSSID
Identified == {i \in DOMAIN access_points :
                 access_points[i].ssid # "" /\ access_points[i].bssid # ""}

\* the BSSID of the first identified access point with an SSID
Canonical(ssid) ==
    LET first == CHOOSE i \in Identified :
                    /\ access_points[i].ssid = ssid
                    /\ \A j \in Identified : access_points[j].ssid = ssid => i <= j
    IN  access_points[first].bssid

\* the elements of a set of positions, in increasing order
Ascending(S) ==
    [k \in 1..Cardinality(S) |-> CHOOSE i \in S : Cardinality({j \in S : j <= i}) = k]

\* the candidates of one type, in the order they were raised
Raised(alert_type) == SelectSeq(new_alerts, LAMBDA a : a.alert_type = alert_type)

\* the positions whose SSID was seen earlier under another, canonical BSSID
RoguePositions ==
    {i \in Identified :
        /\ \E j \in Identified : j < i /\ access_points[j].ssid = access_points[i].ssid
        /\ access_points[i].bssid # Canonical(access_points[i].ssid)}

\* C9: rogue AP detection over the access points in input order.  The first
\* BSSID seen under an SSID is canonical for the whole pass.  The rogue_ap
\* candidates are, in order, one per identified access point whose SSID
\* occurred earlier and whose BSSID differs from the canonical one, with id
\* "rogue_ap_" + BSSID and details {ssid, bssid}; the canonical access point
\* and repeats of its BSSID raise none.
C9_RogueDetection ==
    pc = "detected" =>
      LET expected == Ascending(RoguePositions)
          raised == Raised("rogue_ap")
      IN  /\ Len(raised) = Len(expected)
          /\ \A k \in DOMAIN raised :
                LET ap == access_points[expected[k]]
                IN  /\ raised[k].alert_id = "rogue_ap_" \o ap.bssid
                    /\ raised[k].details = [ssid |-> ap.ssid, bssid |-> ap.bssid]

\* One SSID under the canonical BSSID, the canonical BSSID again, and two
\* other BSSIDs: the last two access points raise an alert each.
C9_Witness ==
    /\ pc = "detected"
    /\ Len(access_points) = 4
    /\ \A i \in 1..4 : access_points[i].ssid = "Cafe"
    /\ access_points[2].bssid = access_points[1].bssid
    /\ Cardinality({access_points[i].bssid : i \in 1..4}) = 3
    /\ Len(Raised("rogue_ap")) = 2
    /\ Raised("rogue_ap")[1].alert_id = "rogue_ap_" \o access_points[3].bssid
    /\ Raised("rogue_ap")[2].alert_id = "rogue_ap_" \o access_points[4].bssid

\* the spellings whose upper case is WEP or WPA
WeakSpelling(encryption) == encryption \in {"wep", "WEP", "wpa", "Wpa", "WPA"}

\* C10 as stated: every access point of the snapshot whose encryption is a
\* spelling of WEP or WPA has a weak_encryption candidate keyed by its BSSID,
\* and every weak_encryption candidate is keyed by the BSSID of such an
\* access point.
C10_EveryAccessPoint ==
    pc = "detected" =>
      /\ \A i \in DOMAIN access_points :
            WeakSpelling(access_points[i].encryption) =>
              \E k \in DOMAIN new_alerts :
                 /\ new_alerts[k].alert_type = "weak_encryption"
                 /\ new_alerts[k].alert_id = "weak_enc_" \o access_points[i].bssid
      /\ \A k \in DOMAIN new_alerts :
            new_alerts[k].alert_type = "weak_encryption" =>
              \E i \in DOMAIN access_points :
                 /\ WeakSpelling(access_points[i].encryption)
                 /\ new_alerts[k].alert_id = "weak_enc_" \o access_points[i].bssid

\* C10: weak encryption detection.  The weak_encryption candidates are, in
\* order, one per access point that carries an SSID and a BSSID and whose
\* encryption is a spelling of WEP or WPA, keyed by "weak_enc_" + BSSID, with
\* the upper-cased encryption in the details; no other access point raises
\* one, and whether the access point also raised a rogue_ap candidate plays
\* no part.
C10_WeakEncryption ==
    pc = "detected" =>
      LET expected == Ascending({i \in Identified :
                                   WeakSpelling(access_points[i].encryption)})
          raised == Raised("weak_encryption")
      IN  /\ Len(raised) = Len(expected)
          /\ \A k \in DOMAIN raised :
                LET ap == access_points[expected[k]]
                IN  /\ raised[k].alert_id = "weak_enc_" \o ap.bssid
                    /\ raised[k].details.bssid = ap.bssid
                    /\ raised[k].details.encryption \in {"WEP", "WPA"}

\* An access point under lower-case "wep" whose SSID belongs to another BSSID
\* raises both a rogue_ap and a weak_encryption candidate.
C10_Witness ==
    /\ pc = "detected"
    /\ \E i \in RoguePositions :
          /\ access_points[i].encryption = "wep"
          /\ \E k \in DOMAIN new_alerts :
                new_alerts[k].alert_id = "rogue_ap_" \o access_points[i].bssid
          /\ \E k \in DOMAIN new_alerts :
                new_alerts[k].alert_id = "weak_enc_" \o access_points[i].bssid

\* the age of an active alert exceeds the window of its rule
Stale(id) ==
    LET alert == ActiveAlert(active_alerts, alert_history, id)
    IN  now - alert.timestamp > C6_Window(alert.alert_type)

\* C14: every call of analyze_devices runs the expiry after the admission.
\* In the state in which a call returns, no alert of the active set is older
\* than the suppress window of its rule.
C14_NoStaleAfterAnalyze ==
    [][AnalyzeStep /\ response'.status = 200 =>
         \A id \in DOMAIN active_alerts' :
            LET alert == ActiveAlert(active_alerts', alert_history', id)
            IN  now' - alert.timestamp <= C6_Window(alert.alert_type)]_vars

\* A call has returned: an alert older than its window is in the history
\* and not active, and an alert within its window is active.
C14_Witness ==
    /\ response.op = "analyze"
    /\ response.status = 200
    /\ active_alerts # EmptyMap
    /\ \A id \in DOMAIN active_alerts : ~Stale(id)
    /\ \E i \in DOMAIN alert_history :
          /\ i \notin Range(active_alerts)
          /\ now - alert_history[i].timestamp > C6_Window(alert_history[i].alert_type)

\* C15 as stated: in every state, an alert whose age exceeds the window of
\* its rule is not in the active set.
C15_RetiredOnceElapsed == \A id \in DOMAIN active_alerts : ~Stale(id)

\* C15: an alert is retired by the first call of analyze_devices that finds
\* its window elapsed, acknowledged or not; the passing of time and
\* acknowledge_alert retire nothing, so an acknowledge of an alert whose
\* window has elapsed, with no analyze call in between, answers 200 and
\* sets the flag.
C15_RetiredByAnalyze ==
    [][/\ AnalyzeStep /\ response'.status = 200 =>
            \A id \in DOMAIN active_alerts : Stale(id) => id \notin DOMAIN active_alerts'
       /\ ~AnalyzeStep => active_alerts' = active_alerts
       /\ AcknowledgeStep =>
            \A id \in DOMAIN active_alerts :
               (Stale(id) /\ response'.alert_id = id) =>
                  /\ response'.status = 200
                  /\ ActiveAlert(active_alerts', alert_history', id).acknowledged]_vars

\* The answer was 200 for an alert that is active, acknowledged and older
\* than the window of its rule.
C15_Witness ==
    /\ response.op = "acknowledge"
    /\ response.status = 200
    /\ response.alert_id \in DOMAIN active_alerts
    /\ Stale(response.alert_id)
    /\ ActiveAlert(active_alerts, alert_history, response.alert_id).acknowledged

\* The severities of the three rules, as the catalog of the specification
\* gives them.
C16_Severity(alert_type) ==
    CASE alert_type = "rogue_ap" -> "high"
      [] alert_type = "mac_spoofing" -> "high"
      [] alert_type = "weak_encryption" -> "medium"

\* C16: the rule catalog is fixed after construction.  In every state the
\* catalog is the one _initialize_alert_rules built (severity, message
\* template, suppress window and thresholds of every rule), and every alert
\* of the history, hence of the active set, carries the severity of its rule.
C16_CatalogFixed ==
    /\ alert_rules = _initialize_alert_rules
    /\ \A rule \in DOMAIN alert_rules :
          /\ alert_rules[rule].severity = C16_Severity(rule)
          /\ alert_rules[rule].suppress_after = C6_Window(rule)
    /\ \A i \in DOMAIN alert_history :
          alert_history[i].severity = C16_Severity(alert_history[i].alert_type)
    /\ \A id \in DOMAIN active_alerts :
          LET alert == ActiveAlert(active_alerts, alert_history, id)
          IN  alert.severity = C16_Severity(alert.alert_type)

\* After analyze, acknowledge and expiry have all acted: the history holds a
\* high and a medium alert, one acknowledged, one retired from the active set.
C16_Witness ==
    /\ \E i, j \in DOMAIN alert_history :
          /\ alert_history[i].severity = "high"
          /\ alert_history[j].severity = "medium"
    /\ \E i \in DOMAIN alert_history : alert_history[i].acknowledged
    /\ \E i \in DOMAIN alert_history : i \notin Range(active_alerts)

\* The placeholders of the three message templates, as the specification
\* lists them.
C17_Placeholders(alert_type) ==
    CASE alert_type = "rogue_ap" -> {"ssid", "bssid"}
      [] alert_type = "weak_encryption" -> {"ssid", "encryption"}
      [] alert_type = "mac_spoofing" -> {"vendor"}

\* C17: for every snapshot the cycle completes, and each alert the detector
\* constructs supplies in its details every placeholder the message template
\* of its rule references (rogue_ap: ssid, bssid; weak_encryption: ssid,
\* encryption; mac_spoofing: vendor), so that its message is rendered.
C17_PlaceholdersSupplied ==
    /\ \A rule \in DOMAIN alert_rules :
          Placeholders(alert_rules[rule].message) = C17_Placeholders(rule)
    /\ pc # "start" =>
          /\ pc = "detected"
          /\ \A k \in DOMAIN new_alerts :
                /\ C17_Placeholders(new_alerts[k].alert_type)
                      \subseteq DOMAIN new_alerts[k].details
                /\ new_alerts[k].message # KeyError

\* A cycle has rendered the message of a weak_encryption alert, or of a
\* mac_spoofing alert for a vendor the table knows, from the details.
C17_Witness ==
    /\ pc = "detected"
    /\ \E k \in DOMAIN new_alerts :
          \/ new_alerts[k].message = "Weak encryption detected: Cafe uses WEP"
          \/ new_alerts[k].message =
                "Possible MAC address spoofing detected for vendor Cisco"

\* the identifier of a device in upper case, and its first three groups
FullId(device) == JoinColon([i \in DOMAIN device.mac |-> Upper(device.mac[i])])

Prefix(device) ==
    JoinColon([i \in 1..Min(3, Len(device.mac)) |-> Upper(device.mac[i])])

\* the distinct identifiers of the devices under a prefix
Members(oui) ==
    {FullId(devices[i]) : i \in {j \in DOMAIN devices : Prefix(devices[j]) = oui}}

\* C11: MAC spoofing detection.  With the device identifiers upper-cased and
\* grouped by their first three groups, there is exactly one mac_spoofing
\* candidate, keyed by the OUI, for each OUI with 3 or more distinct
\* identifiers and none for an OUI with 1 or 2; a repeated identifier counts
\* once and details.device_count is the number of distinct identifiers.
C11_MacSpoofing ==
    pc = "detected" =>
      LET ouis == {Prefix(devices[i]) : i \in DOMAIN devices}
          raised == Raised("mac_spoofing")
      IN  /\ \A o \in ouis :
                Cardinality({k \in DOMAIN raised :
                               raised[k].alert_id = "mac_spoofing_" \o o})
                  = IF Cardinality(Members(o)) >= 3 THEN 1 ELSE 0
          /\ \A k \in DOMAIN raised :
                \E o \in ouis :
                   /\ raised[k].alert_id = "mac_spoofing_" \o o
                   /\ raised[k].details.oui = o
                   /\ raised[k].details.device_count = Cardinality(Members(o))

\* Four records, one identifier twice (once in lower and once in upper
\* case), three distinct identifiers of one OUI: one candidate, count 3.
C11_Witness ==
    /\ pc = "detected"
    /\ Len(devices) = 4
    /\ devices[1].mac # devices[2].mac
    /\ FullId(devices[1]) = FullId(devices[2])
    /\ Cardinality(Members("00:1A:2B")) = 3
    /\ Len(new_alerts) = 1
    /\ new_alerts[1].alert_id = "mac_spoofing_00:1A:2B"
    /\ new_alerts[1].details.device_count = 3

\* the records that lack a required field
LacksField(ap) == Falsy(ap.ssid) \/ Falsy(ap.bssid) \/ ap.encryption = Null

Malformed(device) == device.mac = NoneMac \/ Len(device.mac) < 3

\* the ids of a list of alerts, in order
IdsOf(alerts) == [k \in DOMAIN alerts |-> alerts[k].alert_id]

\* C12: records lacking required identifying fields never abort a cycle
\* and never produce an alert.  An access point whose ssid or bssid is
\* missing, empty or null, or whose encryption is null, and a device whose
\* mac is missing, empty, null or malformed, is skipped: the cycle
\* completes, and its candidates are those of the snapshot without these
\* records.
C12_LackingRecordsSkipped ==
    pc # "start" =>
      /\ pc = "detected"
      /\ LET aps == SelectSeq(access_points, LAMBDA ap : ~LacksField(ap))
             devs == SelectSeq(devices, LAMBDA device : ~Malformed(device))
             listing == CHOOSE l \in SetOrders(devs) : TRUE
         IN  IdsOf(new_alerts) = IdsOf(Detect(aps, devs, listing, now).alerts)

\* C13: operations on the alert store are serialized.  With the clock
\* standing still (no alert expires), whatever the interleaving of
\* concurrent requests, an id has at most one history entry (the test and
\* the insertion of admission are atomic), and no acknowledgment is lost:
\* an active alert whose id is in the acknowledged set carries the flag.
C13_Serialized ==
    /\ \A id \in DOMAIN active_alerts : Count(alert_history, id) <= 1
    /\ \A id \in DOMAIN active_alerts \cap acknowledged_alerts :
          ActiveAlert(active_alerts, alert_history, id).acknowledged

\* an alert but for its message, severity, timestamp and flag
Condition(alert) ==
    [alert_id |-> alert.alert_id, alert_type |-> alert.alert_type,
     source |-> alert.source, details |-> alert.details]

\* the OUIs of the snapshot with three or more distinct identifiers
SpoofedOuis ==
    {o \in {Prefix(devices[i]) : i \in DOMAIN devices} : Cardinality(Members(o)) >= 3}

\* C18: detection does not depend on the store.  Whatever the active set,
\* the history and the acknowledgments, the candidates of a cycle (id, rule,
\* source, details) are those the snapshot alone determines: one rogue_ap
\* per rogue position, one weak_encryption per weakly encrypted access
\* point, one mac_spoofing per OUI at the threshold, also for the
\* conditions whose alert is already active.
C18_StoreIndependent ==
    pc = "detected" =>
      LET rogue == Ascending(RoguePositions)
          weak == Ascending({i \in Identified :
                               WeakSpelling(access_points[i].encryption)})
      IN  /\ Len(Raised("rogue_ap")) = Len(rogue)
          /\ \A k \in DOMAIN rogue :
                LET ap == access_points[rogue[k]]
                IN  Condition(Raised("rogue_ap")[k]) =
                      [alert_id |-> "rogue_ap_" \o ap.bssid, alert_type |-> "rogue_ap",
                       source |-> ap.bssid,
                       details |-> [ssid |-> ap.ssid, bssid |-> ap.bssid]]
          /\ Len(Raised("weak_encryption")) = Len(weak)
          /\ \A k \in DOMAIN weak :
                LET ap == access_points[weak[k]]
                IN  Condition(Raised("weak_encryption")[k]) =
                      [alert_id |-> "weak_enc_" \o ap.bssid,
                       alert_type |-> "weak_encryption", source |-> ap.bssid,
                       details |-> [ssid |-> ap.ssid, bssid |-> ap.bssid,
                                    encryption |-> Upper(ap.encryption)]]
          /\ Len(Raised("mac_spoofing")) = Cardinality(SpoofedOuis)
          /\ \A o \in SpoofedOuis :
                \E k \in DOMAIN new_alerts :
                   /\ new_alerts[k].alert_id = "mac_spoofing_" \o o
                   /\ new_alerts[k].alert_type = "mac_spoofing"
                   /\ new_alerts[k].source = o
                   /\ new_alerts[k].details.oui = o
                   /\ new_alerts[k].details.device_count = Cardinality(Members(o))
                   /\ new_alerts[k].details.mac_addresses = Members(o)

\* A cycle produced a candidate for a condition whose alert was already
\* active and acknowledged, and admitted nothing.
C18_Witness ==
    /\ pc = "detected"
    /\ response.op = "analyze"
    /\ new_alerts # <<>>
    /\ \A k \in DOMAIN new_alerts :
          /\ new_alerts[k].alert_id \in DOMAIN active_alerts
          /\ new_alerts[k].alert_id \in acknowledged_alerts
          /\ ActiveAlert(active_alerts, alert_history, new_alerts[k].alert_id).acknowledged

\* C19: within one call of analyze_devices at most one alert is raised per
\* id: the list the call returns holds no two alerts with the same id, also
\* when the snapshot lists the offending access point more than once.
C19_ReturnedIdsDistinct ==
    response.op = "analyze" =>
      \A i, j \in DOMAIN response.ids :
         i # j => response.ids[i] # response.ids[j]

\* C20: expiry changes nothing but the membership of the active set.  Over
\* a call of analyze_devices the entries of the history keep their order,
\* timestamp and flag, the acknowledged set is unchanged, an alert that stays
\* active stays the same object, and an active alert is retired exactly when
\* its age exceeds the window of its rule, acknowledged or not.
C20_ExpiryFrame ==
    [][AnalyzeStep =>
         /\ acknowledged_alerts' = acknowledged_alerts
         /\ Len(alert_history') >= Len(alert_history)
         /\ \A i \in DOMAIN alert_history : alert_history'[i] = alert_history[i]
         /\ \A id \in DOMAIN active_alerts :
               /\ id \in DOMAIN active_alerts' => active_alerts'[id] = active_alerts[id]
               /\ id \notin DOMAIN active_alerts' <=> Stale(id)
               /\ (Stale(id) /\ ActiveAlert(active_alerts, alert_history, id).acknowledged)
                     => id \notin DOMAIN active_alerts']_vars

\* A call has retired an acknowledged alert: its history entry keeps the
\* flag and its id stays in the acknowledged set.
C20_Witness ==
    /\ response.op = "analyze"
    /\ \E i \in DOMAIN alert_history :
          /\ alert_history[i].acknowledged
          /\ alert_history[i].alert_id \notin DOMAIN active_alerts
          /\ alert_history[i].alert_id \in acknowledged_alerts
          /\ now - alert_history[i].timestamp > C6_Window(alert_history[i].alert_type)

\* The vendors of the OUIs of the device lists, as the static table and the
\* fallback of the specification give them.
C21_Vendor(oui) ==
    CASE oui = "00:1A:2B" -> "Cisco"
      [] oui = "08:00:27" -> "Oracle VirtualBox"
      [] OTHER -> "OUI " \o oui

\* C21: the details of a mac_spoofing alert.  mac_addresses lists
\* min(5, device_count) identifiers, all of them members of the group of the
\* OUI, and vendor is the name of the OUI in the static table, or "OUI "
\* followed by the OUI when the table does not have it.
C21_SpoofingDetails ==
    pc = "detected" =>
      \A k \in DOMAIN new_alerts :
         new_alerts[k].alert_type = "mac_spoofing" =>
           LET details == new_alerts[k].details
           IN  /\ details.device_count = Cardinality(Members(details.oui))
               /\ Cardinality(details.mac_addresses) =
                     IF details.device_count < 5 THEN details.device_count ELSE 5
               /\ details.mac_addresses \subseteq Members(details.oui)
               /\ details.vendor = C21_Vendor(details.oui)

\* A group of six devices of an unknown vendor: five of them are listed.
C21_Witness ==
    /\ pc = "detected"
    /\ \E k \in DOMAIN new_alerts :
          /\ new_alerts[k].details.device_count = 6
          /\ Cardinality(new_alerts[k].details.mac_addresses) = 5
          /\ new_alerts[k].details.vendor = "OUI AA:BB:CC"

\* C22: the alert listing reports the stored state.  A listed alert whose
\* id is active shows the acknowledged flag and the timestamp of the active
\* record, and a listing under the filter acknowledged=true holds exactly
\* the detected alerts whose active record is acknowledged.
C22_ListingReportsStore ==
    response.op = "analyze" =>
      /\ \A k \in DOMAIN response.alerts :
            response.alerts[k].id \in DOMAIN active_alerts =>
              LET alert == ActiveAlert(active_alerts, alert_history, response.alerts[k].id)
              IN  /\ response.alerts[k].acknowledged = alert.acknowledged
                  /\ response.alerts[k].timestamp = alert.timestamp
      /\ response.acknowledged = "true" =>
            Range(response.ids) =
              {id \in Range(IdsOf(new_alerts)) \cap DOMAIN active_alerts :
                 ActiveAlert(active_alerts, alert_history, id).acknowledged}

\* C23: the active set is a subset of the history.  In every state each
\* active alert is an entry of the history under its own id, the latest
\* entry of that id, with the timestamp and the flag of the active record;
\* after an acknowledge that answered 200 the history entry of the alert
\* shows the flag.
C23_ActiveInHistory ==
    /\ \A id \in DOMAIN active_alerts :
          /\ active_alerts[id] \in DOMAIN alert_history
          /\ alert_history[active_alerts[id]].alert_id = id
          /\ \A j \in DOMAIN alert_history :
                alert_history[j].alert_id = id => j <= active_alerts[id]
    /\ (response.op = "acknowledge" /\ response.status = 200) =>
          \E i \in DOMAIN alert_history :
             /\ alert_history[i].alert_id = response.alert_id
             /\ alert_history[i].acknowledged

\* Two alerts are active, both in the history, and the second one has been
\* acknowledged.
C23_Witness ==
    /\ Cardinality(DOMAIN active_alerts) = 2
    /\ response.op = "acknowledge"
    /\ response.status = 200
    /\ active_alerts[response.alert_id] = 2
    /\ alert_history[2].acknowledged

\* C24: the acknowledged set agrees with the flags.  In every state, for
\* every active alert, its id is in the acknowledged set exactly when its
\* flag is set, also after an acknowledged alert has expired and its
\* condition has been admitted again.
C24_AcknowledgedSetAgrees ==
    \A id \in DOMAIN active_alerts :
       id \in acknowledged_alerts
         <=> ActiveAlert(active_alerts, alert_history, id).acknowledged

\* C25 as stated: when a call of analyze_devices has returned, every id of
\* a candidate of the call is in the active set.
C25_EveryCandidateActive ==
    (response.op = "analyze" /\ response.status = 200) =>
       Range(response.ids) \subseteq DOMAIN active_alerts

\* C25: when a call of analyze_devices returns, the id of a candidate is in
\* the active set unless the alert that was active under that id when the
\* call began had passed its window: admission runs before expiry, so that
\* candidate is dropped as a duplicate, the old alert is then retired, and
\* the condition is left without an active alert.
C25_CandidateActiveUnlessStale ==
    [][AnalyzeStep /\ response'.status = 200 =>
         \A id \in Range(response'.ids) :
            id \in DOMAIN active_alerts'
              <=> ~(id \in DOMAIN active_alerts /\ Stale(id))]_vars

\* A call has returned a candidate whose id is not active: the alert of
\* the still present condition was retired by the call.
C25_Witness ==
    /\ response.op = "analyze"
    /\ response.status = 200
    /\ \E id \in Range(response.ids) :
          /\ id \notin DOMAIN active_alerts
          /\ \E i \in DOMAIN alert_history :
                /\ alert_history[i].alert_id = id
                /\ now - alert_history[i].timestamp > C6_Window(alert_history[i].alert_type)

\* C26: the history holds one entry per activation of an id.  The
\* timestamps of two history entries with the same id differ by more than
\* the suppress window of their rule, and the earlier of the two is not in
\* the active set.
C26_OneEntryPerActivation ==
    \A i, j \in DOMAIN alert_history :
       (i < j /\ alert_history[i].alert_id = alert_history[j].alert_id) =>
          /\ alert_history[j].timestamp - alert_history[i].timestamp
                > C6_Window(alert_history[i].alert_type)
          /\ i \notin Range(active_alerts)

\* A condition was admitted, retired and admitted again: two entries of
\* one id, the second one active.
C26_Witness ==
    /\ Len(alert_history) = 2
    /\ alert_history[1].alert_id = alert_history[2].alert_id
    /\ Range(active_alerts) = {2}

\* C27: in the assembled pipeline, three or more loaded devices whose real
\* addresses share an OUI raise a mac_spoofing alert: when the cycle on
\* the loaded devices has run, every identifier the loader stored has a
\* colon-separated vendor prefix and there is a mac_spoofing candidate.
C27_PipelineRaisesSpoofing ==
    pc # "raw" /\ pc # "start" =>
       /\ pc = "detected"
       /\ \A i \in DOMAIN devices : Len(devices[i].mac) >= 3
       /\ \E k \in DOMAIN new_alerts : new_alerts[k].alert_type = "mac_spoofing"

TypeOK ==
    /\ now \in 0..MaxTime
    /\ Len(alert_history) <= MaxHistory
    /\ \A id \in DOMAIN active_alerts : active_alerts[id] \in 1..Len(alert_history)

====
